---- MODULE Spec2Model ----
(***************************************************************************)
(* Model of the export pipeline of arc-apps (internal/cmd/root.go):        *)
(* exportCmd's RunE calling runExport, the buffered report writer, the     *)
(* external commands run under the caller's context, and the two output    *)
(* files on disk.                                                          *)
(*                                                                         *)
(* Strings are sequences of one-character strings.  A report is a sequence *)
(* of items, one per Write call that reaches the bufio.Writer; an item is  *)
(* the unit of size (fileSize counts items).  The report path and the      *)
(* metadata path are taken to name two different files.                    *)
(***************************************************************************)
EXTENDS Integers, Sequences, FiniteSets, TLC

\* Every raw output of a list command (mdfind, brew list) of up to MaxOut
\* characters is tried, besides the longer samples of ListOutputs.
MaxOut == 1

\* Capacity of the bufio.Writer, in items.
BufCap == 6

\* Deepest directory level present below the Caskroom root.
TreeDepth == 3

VARIABLES
    pc,         \* position in exportCmd.RunE / runExport
    opts,       \* exportOptions: [compact]
    path,       \* the search path: [mdfind, brew] resolvable or not
    ctxDone,    \* the caller's context has been cancelled
    writer,     \* bufio.Writer: [buf, err]
    reportFile, \* the report *os.File: "nil", "open" or "closed"
    fs,         \* the disk: [dirs, report: [exists, data], json: [exists, data]]
    stats,      \* runExport's local exportStats
    result,     \* runExport's exportResult
    err,        \* the error runExport returns (Nil when none)
    emitted,    \* what exportCmd rendered: <<>> or <<result>>
    lastCmd,    \* the last external command run: [name, status]
    hist        \* observers of the run: what the writer accepted (sent), a write
                \* after close (wac), the last writer/handle call (lastOp), Close
                \* calls (closes) and the call before the first one (closedAfter),
                \* what the run created on disk (created), and the buffer and
                \* handle when the report was stat'ed (statBuf, statHandle), and
                \* how the read of ~/Applications went (userRead)

vars == <<pc, opts, path, ctxDone, writer, reportFile, fs, stats, result, err,
          emitted, lastCmd, hist>>

-----------------------------------------------------------------------------
(* Strings *)

NL == "\n"
SP == " "
Chars == {"a", SP, NL}
Space == {SP, NL}

\* Byte order of the characters: '\n' (10) < ' ' (32) < 'a' (97).
Ord(c) == CASE c = NL -> 10 [] c = SP -> 32 [] OTHER -> 97

RECURSIVE TrimLeft(_)
TrimLeft(s) ==
    IF s # <<>> /\ Head(s) \in Space THEN TrimLeft(Tail(s)) ELSE s

RECURSIVE TrimRight(_)
TrimRight(s) ==
    IF s # <<>> /\ s[Len(s)] \in Space
    THEN TrimRight(SubSeq(s, 1, Len(s) - 1))
    ELSE s

\* strings.TrimSpace
TrimSpace(s) == TrimRight(TrimLeft(s))

\* strings.Split(s, "\n"): always at least one field.
RECURSIVE SplitNL(_)
SplitNL(s) ==
    IF \A i \in 1..Len(s) : s[i] # NL
    THEN <<s>>
    ELSE LET i == CHOOSE k \in 1..Len(s) :
                      s[k] = NL /\ \A j \in 1..(k - 1) : s[j] # NL
         IN  <<SubSeq(s, 1, i - 1)>> \o SplitNL(SubSeq(s, i + 1, Len(s)))

\* s < t in Go's string order (byte-wise lexicographic).
RECURSIVE StrLess(_, _)
StrLess(s, t) ==
    IF t = <<>> THEN FALSE
    ELSE IF s = <<>> THEN TRUE
    ELSE IF Head(s) # Head(t) THEN Ord(Head(s)) < Ord(Head(t))
    ELSE StrLess(Tail(s), Tail(t))

RECURSIVE InsertSorted(_, _)
InsertSorted(x, q) ==
    IF q = <<>> THEN <<x>>
    ELSE IF StrLess(Head(q), x) THEN <<Head(q)>> \o InsertSorted(x, Tail(q))
    ELSE <<x>> \o q

\* sort.Strings
RECURSIVE SortStrings(_)
SortStrings(q) ==
    IF q = <<>> THEN <<>> ELSE InsertSorted(Head(q), SortStrings(Tail(q)))

\* strings.Contains(s, sub)
Contains(s, sub) ==
    \E i \in 0..(Len(s) - Len(sub)) : SubSeq(s, i + 1, i + Len(sub)) = sub

\* strings.Count(s, c) for a one-character separator.
Count(s, c) == Cardinality({i \in 1..Len(s) : s[i] = c})

\* strings.TrimPrefix
TrimPrefix(s, p) ==
    IF Len(s) >= Len(p) /\ SubSeq(s, 1, Len(p)) = p
    THEN SubSeq(s, Len(p) + 1, Len(s))
    ELSE s

\* All strings over Chars of length at most n.
RECURSIVE StringsUpTo(_)
StringsUpTo(n) ==
    IF n = 0 THEN {<<>>}
    ELSE LET S == StringsUpTo(n - 1)
         IN  S \cup {Append(s, c) : s \in S, c \in Chars}

-----------------------------------------------------------------------------
(* External commands *)

CmdMdfind == <<"mdfind">>
CmdCasks == <<"brew", SP, "list", SP, "--cask", SP, "--versions">>
CmdPrefix == <<"brew", SP, "--prefix">>
CmdFormulae == <<"brew", SP, "list", SP, "--formula", SP, "--versions">>
CmdConfig == <<"brew", SP, "config">>
CmdDoctor == <<"brew", SP, "doctor">>
CmdInfo == <<"brew", SP, "info", SP, "--installed", SP, "--json=v2">>

\* How a started process can end: exit 0, exit non-zero, or killed because the
\* context was cancelled while it ran.
Exits == {"ok", "fail", "cancel"}

\* Raw outputs of the list commands: every short string, and "aa\n a \n\n"
\* (two lines out of order, one padded, and a blank line).
ListOutputs ==
    StringsUpTo(MaxOut) \cup {<<"a", "a", NL, SP, "a", SP, NL, NL>>}
PrefixOutputs == {<<>>, <<"a", NL>>}
DirNames == {<<"a">>, <<"a", "a">>}

\* What brew config or brew doctor may have printed when it ends with status s:
\* a process that does not exit 0 may have printed nothing yet.
DiagOutputs(s) == IF s = "ok" THEN {<<"a", NL>>} ELSE {<<>>, <<"a", NL>>}

\* What brew info may have written to its stdout when it ends with status s.
JSONOutputs(s) ==
    CASE s = "ok" -> {<<"j", "j">>}
      [] s = "fail" -> {<<>>}
      [] OTHER -> {<<>>, <<"j">>}

\* exec.CommandContext(ctx, ...) and Run: a context that is already done keeps
\* the process from starting; otherwise the process ends as r says.
Exec(r) ==
    IF ctxDone THEN [status |-> "ctxdone", out |-> <<>>] ELSE r

\* commandLines: the normalized lines of a command's combined output.
commandLines(run) ==
    IF run.status # "ok"
    THEN [err |-> TRUE, lines |-> <<>>]
    ELSE LET raw == SplitNL(TrimSpace(run.out))
             trimmed == [i \in 1..Len(raw) |-> TrimSpace(raw[i])]
         IN  [err |-> FALSE, lines |-> SelectSeq(trimmed, LAMBDA l : l # <<>>)]

RECURSIVE SetToSeq(_)
SetToSeq(S) ==
    IF S = {} THEN <<>>
    ELSE LET x == CHOOSE y \in S : TRUE IN <<x>> \o SetToSeq(S \ {x})

\* What os.ReadDir can meet: an unreadable directory, or a set of entry names.
DirReads ==
    {[ok |-> FALSE, names |-> {}]} \cup {[ok |-> TRUE, names |-> S] : S \in {{}, DirNames}}

\* listDirSorted
listDirSorted(read) ==
    IF ~read.ok
    THEN [err |-> TRUE, names |-> <<>>]
    ELSE [err |-> FALSE, names |-> SortStrings(SetToSeq(read.names))]

-----------------------------------------------------------------------------
(* The buffered report writer.  An io state st carries the bufio.Writer, the
   file behind it and the observers of the handle:
   [buf, err, file, handle, wac, sent, lastOp, closes, closedAfter]. *)

Item(sec, kind, text) == [sec |-> sec, kind |-> kind, text |-> text]

\* (*os.File).Write of the items p; ok is whether the disk accepts the write.
\* A write to a handle that is not open fails and is recorded in wac.
FileWrite(st, p, ok) ==
    IF st.handle # "open"
    THEN [st EXCEPT !.err = TRUE, !.wac = TRUE]
    ELSE IF ~ok
    THEN [st EXCEPT !.err = TRUE]
    ELSE [st EXCEPT !.file = st.file \o p, !.buf = <<>>]

\* (*bufio.Writer).Flush: a sticky error or an empty buffer writes nothing.
Flush(st, ok) ==
    LET s0 == [st EXCEPT !.lastOp = "flush"]
    IN  IF s0.err \/ s0.buf = <<>> THEN s0 ELSE FileWrite(s0, s0.buf, ok)

\* (*bufio.Writer).Write of one item: a full buffer is flushed first; the item
\* is accepted (copied into the buffer) unless the writer has failed.
Write1(st, item, ok) ==
    LET s0 == [st EXCEPT !.lastOp = "write"]
        s1 == IF ~s0.err /\ Len(s0.buf) = BufCap
              THEN [Flush(s0, ok) EXCEPT !.lastOp = "write"]
              ELSE s0
    IN  IF s1.err THEN s1
        ELSE [s1 EXCEPT !.buf = Append(s1.buf, item),
                        !.sent = Append(s1.sent, item)]

\* A run of fmt.Fprintln calls that stops at the first error.
RECURSIVE WriteAll(_, _, _)
WriteAll(st, items, ok) ==
    IF items = <<>> \/ st.err THEN st
    ELSE WriteAll(Write1(st, Head(items), ok), Tail(items), ok)

\* (*os.File).Close
Close(st) ==
    [st EXCEPT !.handle = "closed", !.closes = st.closes + 1,
               !.closedAfter = IF st.closes = 0 THEN st.lastOp ELSE st.closedAfter,
               !.lastOp = "close"]

\* writeSectionHeader: blank line, divider, title, divider.
writeSectionHeader(st, sec, title, ok) ==
    WriteAll(st, <<Item(sec, "blank", <<>>), Item(sec, "rule", <<>>),
                   Item(sec, "title", <<title>>), Item(sec, "rule", <<>>)>>, ok)

\* A mutant of writeLines: the loop starts at the second line.
writeLinesSkipFirst(st, sec, lines, ok) ==
    WriteAll(st, [i \in 1..(Len(lines) - 1) |-> Item(sec, "line", lines[i + 1])], ok)

\* writeLines: one Fprintln per line.
writeLines(st, sec, lines, ok) ==
    WriteAll(st, [i \in 1..Len(lines) |-> Item(sec, "line", lines[i])], ok)

\* fileSize: 0 when the file cannot be stat'ed.
fileSize(f) == IF f.exists THEN Len(f.data) ELSE 0

\* The nil error, and the errors runExport returns, as strings.
Nil == <<>>
IOErr(what) == <<what>>

\* ensureCommand's error for a missing executable.
MissingErr(name) == <<name, SP, "is required but not found in PATH">>

\* wrapCommandErr for a non-nil error: "<command> failed: ...".
wrapCommandErr(cmdName) == cmdName \o <<SP, "failed">>

\* appendCommandOutput: the command's output is streamed through the writer
\* and into a side buffer; a failure is a warning when allowWarn, else an error.
appendCommandOutput(st, allowWarn, sec, cmdStr, run, ok) ==
    LET s1 == IF run.out # <<>>
              THEN Write1(st, Item(sec, "out", run.out), ok)
              ELSE st
        copied == ~s1.err
        failed == run.status # "ok" \/ ~copied
        msg == TrimSpace(IF copied THEN run.out ELSE <<>>)
        cause == IF run.status # "ok" THEN run.status ELSE "copy"
        warn == cmdStr \o <<SP, "failed:", SP, cause>>
                \o (IF msg # <<>> THEN <<":", SP>> \o msg ELSE <<>>)
    IN  IF ~failed THEN [st |-> s1, warn |-> <<>>, err |-> Nil]
        ELSE IF allowWarn THEN [st |-> s1, warn |-> warn, err |-> Nil]
        ELSE [st |-> s1, warn |-> <<>>, err |-> wrapCommandErr(cmdStr)]

-----------------------------------------------------------------------------
(* runExport, one action per block of the function *)

AbsReport == <<"/", "r">>
AbsJSON == <<"/", "j">>

NoCmd == [name |-> <<>>, status |-> "none"]
Ran(name, run) == [name |-> name, status |-> run.status]

ZeroStats ==
    [AppBundleCount |-> 0, ApplicationsDirCount |-> 0, UserApplicationsCount |-> 0,
     BrewCaskCount |-> 0, BrewFormulaCount |-> 0]

\* The zero exportResult (var result exportResult); times are 0 when unset.
ZeroResult ==
    [ReportPath |-> <<>>, ReportSizeBytes |-> 0, BrewJSONPath |-> <<>>,
     BrewJSONSizeBytes |-> 0, Compact |-> FALSE, Stats |-> ZeroStats,
     DurationSeconds |-> 0, StartedAt |-> 0, CompletedAt |-> 0, Warnings |-> <<>>]

\* The io state the next statement of runExport sees.
W ==
    [buf |-> writer.buf, err |-> writer.err, file |-> fs.report.data,
     handle |-> reportFile, wac |-> hist.wac, sent |-> hist.sent,
     lastOp |-> hist.lastOp, closes |-> hist.closes,
     closedAfter |-> hist.closedAfter]

\* The state after a block: the io state st, the next position, the error to
\* return, the locals, the command the block ran (NoCmd when none), and the
\* disk and observers as the block left them apart from the report's bytes.
Step(st, newpc, newerr, newstats, newresult, cmd, fs0, h0) ==
    /\ pc' = newpc
    /\ err' = newerr
    /\ stats' = newstats
    /\ result' = newresult
    /\ writer' = [buf |-> st.buf, err |-> st.err]
    /\ reportFile' = st.handle
    /\ fs' = [fs0 EXCEPT !.report.data = st.file]
    /\ hist' = [h0 EXCEPT !.sent = st.sent, !.wac = st.wac, !.lastOp = st.lastOp,
                          !.closes = st.closes, !.closedAfter = st.closedAfter]
    /\ lastCmd' = IF cmd.status = "none" THEN lastCmd ELSE cmd
    /\ ctxDone' = (ctxDone \/ cmd.status = "cancel")
    /\ UNCHANGED <<opts, path, emitted>>

\* return result, err from inside runExport once the defers are registered.
Abort(st, e, cmd) == Step(st, "deferred", e, stats, result, cmd, fs, hist)

\* Fall through to the next block.
Goto(st, newpc, newstats, newresult, cmd) ==
    Step(st, newpc, Nil, newstats, newresult, cmd, fs, hist)

\* return result, err before the report file is opened.
ReturnEarly(e, fs0, h0) ==
    /\ pc' = "returned"
    /\ err' = e
    /\ fs' = fs0
    /\ hist' = h0
    /\ UNCHANGED <<opts, path, ctxDone, writer, reportFile, stats, result,
                   emitted, lastCmd>>

Advance(newpc, fs0, h0) ==
    /\ pc' = newpc
    /\ fs' = fs0
    /\ hist' = h0
    /\ UNCHANGED <<opts, path, ctxDone, writer, reportFile, stats, result, err,
                   emitted, lastCmd>>

\* ensureCommand("mdfind", ...)
EnsureMdfind ==
    /\ pc = "ensureMdfind"
    /\ IF path.mdfind
       THEN Advance("ensureBrew", fs, hist)
       ELSE ReturnEarly(MissingErr("mdfind"), fs, hist)

\* A mutant of EnsureBrew: the lookup's result is ignored.
EnsureBrewIgnored ==
    /\ pc = "ensureBrew"
    /\ Advance("abs", fs, hist)

\* ensureCommand("brew", ...)
EnsureBrew ==
    /\ pc = "ensureBrew"
    /\ IF path.brew
       THEN Advance("abs", fs, hist)
       ELSE ReturnEarly(MissingErr("brew"), fs, hist)

\* filepath.Abs of the two paths; it fails when the working directory is gone.
ResolvePaths ==
    /\ pc = "abs"
    /\ \E ok \in BOOLEAN :
          IF ok THEN Advance("mkdir", fs, hist)
          ELSE ReturnEarly(IOErr("abs"), fs, hist)

\* os.MkdirAll of the report's directory, then of the metadata file's.
MakeDirs ==
    /\ pc = "mkdir"
    /\ \E ok1 \in BOOLEAN, ok2 \in BOOLEAN :
          LET fs1 == [fs EXCEPT !.dirs = fs.dirs \cup {"reportDir"}]
              h1 == [hist EXCEPT !.created =
                         hist.created \cup ({"reportDir"} \ fs.dirs)]
              fs2 == [fs1 EXCEPT !.dirs = fs1.dirs \cup {"jsonDir"}]
              h2 == [h1 EXCEPT !.created = h1.created \cup ({"jsonDir"} \ fs.dirs)]
          IN  IF ~ok1 THEN ReturnEarly(IOErr("mkdir"), fs, hist)
              ELSE IF ~ok2 THEN ReturnEarly(IOErr("mkdir"), fs1, h1)
              ELSE Advance("create", fs2, h2)

\* A mutant of CreateReport: the metadata path is recorded in compact mode too.
CreateReportRecordsJSON ==
    /\ pc = "create"
    /\ Step([W EXCEPT !.handle = "open", !.file = <<>>],
            "appBundles", Nil, ZeroStats,
            [result EXCEPT !.ReportPath = AbsReport, !.BrewJSONPath = AbsJSON,
                           !.StartedAt = 1],
            NoCmd, [fs EXCEPT !.report.exists = TRUE],
            [hist EXCEPT !.created = hist.created \cup {"report"}])

\* os.Create of the report (truncating it), the writer and the two defers,
\* and the first fields of the result.
CreateReport ==
    /\ pc = "create"
    /\ \E ok \in BOOLEAN :
          IF ~ok THEN ReturnEarly(IOErr("create"), fs, hist)
          ELSE Step([W EXCEPT !.handle = "open", !.file = <<>>],
                    "appBundles", Nil, ZeroStats,
                    [result EXCEPT
                        !.ReportPath = AbsReport,
                        !.BrewJSONPath = IF ~opts.compact THEN AbsJSON ELSE <<>>,
                        !.StartedAt = 1],
                    NoCmd, [fs EXCEPT !.report.exists = TRUE],
                    [hist EXCEPT !.created = hist.created \cup {"report"}])

\* A section that lists a command's lines: header, commandLines, sort.Strings,
\* the count, writeLines.
ListSection(sec, title, cmdName, field, newpc) ==
    \E ok \in BOOLEAN, r \in [status : Exits, out : ListOutputs] :
        LET s1 == writeSectionHeader(W, sec, title, ok)
            run == Exec(r)
            cl == commandLines(run)
            cmd == Ran(cmdName, run)
            lines == SortStrings(cl.lines)
            s2 == writeLines(s1, sec, lines, ok)
            st1 == [stats EXCEPT ![field] = Len(lines)]
        IN  IF s1.err THEN Abort(s1, IOErr("write"), NoCmd)
            ELSE IF cl.err THEN Abort(s1, wrapCommandErr(cmdName), cmd)
            ELSE IF s2.err
                 THEN Step(s2, "deferred", IOErr("write"), st1, result, cmd, fs, hist)
            ELSE Goto(s2, newpc, st1, result, cmd)

\* Lines 202-214: the app bundles Spotlight knows.
AppBundles ==
    /\ pc = "appBundles"
    /\ ListSection("apps", "MAC SYSTEM + USER INSTALLED APPLICATIONS (.app bundles)",
                   CmdMdfind, "AppBundleCount", "systemApps")

\* Lines 216-229: /Applications, which must be readable.
SystemApps ==
    /\ pc = "systemApps"
    /\ \E ok \in BOOLEAN, read \in DirReads :
          LET s1 == WriteAll(W, <<Item("system", "blank", <<>>),
                                  Item("system", "title", <<"-- /Applications ---">>)>>, ok)
              ls == listDirSorted(read)
              st1 == [stats EXCEPT !.ApplicationsDirCount = Len(ls.names)]
              s2 == writeLines(s1, "system", ls.names, ok)
          IN  IF s1.err THEN Abort(s1, IOErr("write"), NoCmd)
              ELSE IF ls.err THEN Abort(s1, wrapCommandErr(<<"ls", SP, "/Applications">>), NoCmd)
              ELSE IF s2.err
                   THEN Step(s2, "deferred", IOErr("write"), st1, result, NoCmd, fs, hist)
              ELSE Goto(s2, "userApps", st1, result, NoCmd)

\* Lines 231-244: ~/Applications, which may be missing.
UserApps ==
    /\ pc = "userApps"
    /\ \E ok \in BOOLEAN, read \in DirReads :
          LET s1 == WriteAll(W, <<Item("user", "blank", <<>>),
                                  Item("user", "title", <<"-- ~/Applications ---">>)>>, ok)
              ls == listDirSorted(read)
              st1 == [stats EXCEPT !.UserApplicationsCount = Len(ls.names)]
              s2 == writeLines(s1, "user", ls.names, ok)
          IN  IF s1.err THEN Abort(s1, IOErr("write"), NoCmd)
              ELSE IF ls.err
                   THEN Step(s1, "casks", Nil, stats, result, NoCmd, fs,
                             [hist EXCEPT !.userRead = "fail"])
              ELSE IF s2.err
                   THEN Step(s2, "deferred", IOErr("write"), st1, result, NoCmd, fs,
                             [hist EXCEPT !.userRead = "ok"])
              ELSE Step(s2, "casks", Nil, st1, result, NoCmd, fs,
                        [hist EXCEPT !.userRead = "ok"])

\* Lines 246-257: the installed casks.
Casks ==
    /\ pc = "casks"
    /\ ListSection("casks", "HOMEBREW CASK APPLICATIONS (GUI)",
                   CmdCasks, "BrewCaskCount", "caskroom")

\* filepath.WalkDir over a Caskroom holding one directory per level down to
\* level n: a directory deeper than 2 separators is skipped with its subtree.
RECURSIVE WalkDir(_, _, _, _)
WalkDir(caskroom, p, level, n) ==
    IF level > n THEN <<>>
    ELSE IF Count(TrimPrefix(p, caskroom), "/") > 2 THEN <<>>
    ELSE <<p>> \o WalkDir(caskroom, p \o <<"/", "d">>, level + 1, n)

\* caskroomDirectories: stat is what os.Stat finds at <prefix>/Caskroom.
caskroomDirectories(run, stat, n, walkOk) ==
    LET pl == commandLines(run)
        caskroom == pl.lines[1] \o <<"/", "Caskroom">>
    IN  IF pl.err THEN [err |-> wrapCommandErr(CmdPrefix), dirs |-> <<>>]
        ELSE IF pl.lines = <<>> THEN [err |-> Nil, dirs |-> <<>>]
        ELSE IF stat = "missing" THEN [err |-> Nil, dirs |-> <<>>]
        ELSE IF stat = "error" THEN [err |-> IOErr("stat"), dirs |-> <<>>]
        ELSE IF ~walkOk THEN [err |-> IOErr("walk"), dirs |-> <<>>]
        ELSE [err |-> Nil, dirs |-> SortStrings(WalkDir(caskroom, caskroom, 0, n))]

\* Lines 259-273: the Caskroom directories, unless compact.
CaskroomPaths ==
    /\ pc = "caskroom"
    /\ IF opts.compact THEN Goto(W, "formulae", stats, result, NoCmd)
       ELSE \E ok \in BOOLEAN, r \in [status : Exits, out : PrefixOutputs],
               stat \in {"missing", "error", "dir"}, n \in {0, TreeDepth},
               walkOk \in BOOLEAN :
          LET s1 == WriteAll(W, <<Item("paths", "blank", <<>>),
                                  Item("paths", "title", <<"-- Installed paths --">>)>>, ok)
              run == Exec(r)
              cd == caskroomDirectories(run, stat, n, walkOk)
              cmd == Ran(CmdPrefix, run)
              s2 == writeLines(s1, "paths", cd.dirs, ok)
          IN  IF s1.err THEN Abort(s1, IOErr("write"), NoCmd)
              ELSE IF cd.err # Nil THEN Abort(s1, cd.err, cmd)
              ELSE IF s2.err THEN Abort(s2, IOErr("write"), cmd)
              ELSE Goto(s2, "formulae", stats, result, cmd)

\* Lines 275-286: the installed formulae.
Formulae ==
    /\ pc = "formulae"
    /\ ListSection("formulae", "HOMEBREW FORMULAE (CLI tools)",
                   CmdFormulae, "BrewFormulaCount", "config")

\* One appendCommandOutput call of runExport and the handling of what it returns.
Diagnostic(st, allowWarn, sec, cmdName, newpc, r, ok) ==
    LET run == Exec(r)
        a == appendCommandOutput(st, allowWarn, sec, cmdName, run, ok)
        cmd == Ran(cmdName, run)
    IN  IF a.err # Nil THEN Abort(a.st, a.err, cmd)
        ELSE IF a.warn # <<>>
             THEN Goto(a.st, newpc, stats,
                       [result EXCEPT !.Warnings = Append(result.Warnings, a.warn)], cmd)
        ELSE Goto(a.st, newpc, stats, result, cmd)

\* Lines 288-296: the section header and brew config, unless compact.
BrewConfig ==
    /\ pc = "config"
    /\ IF opts.compact THEN Goto(W, "banner", stats, result, NoCmd)
       ELSE \E ok \in BOOLEAN, status \in Exits :
            \E out \in DiagOutputs(status) :
          LET s1 == writeSectionHeader(W, "config", "BREW ENV & METADATA", ok)
          IN  IF s1.err THEN Abort(s1, IOErr("write"), NoCmd)
              ELSE Diagnostic(s1, FALSE, "config", CmdConfig, "doctor",
                              [status |-> status, out |-> out], ok)

\* A mutant of BrewDoctor: the call passes allowWarn = false, as brew config's does.
BrewDoctorFatal ==
    /\ pc = "doctor"
    /\ \E ok \in BOOLEAN, status \in Exits :
        \E out \in DiagOutputs(status) :
          Diagnostic(W, FALSE, "doctor", CmdDoctor, "brewJSON",
                     [status |-> status, out |-> out], ok)

\* Lines 297-301: brew doctor.
BrewDoctor ==
    /\ pc = "doctor"
    /\ \E ok \in BOOLEAN, status \in Exits :
        \E out \in DiagOutputs(status) :
          Diagnostic(W, TRUE, "doctor", CmdDoctor, "brewJSON",
                     [status |-> status, out |-> out], ok)

\* Lines 303-311 with writeBrewJSON: the header, os.Create of the metadata file,
\* brew info writing straight into it, and the "Saved JSON" line.
BrewJSON ==
    /\ pc = "brewJSON"
    /\ \E ok \in BOOLEAN, createOk \in BOOLEAN, status \in Exits :
        \E out \in JSONOutputs(status) :
          LET r == [status |-> status, out |-> out]
              s1 == writeSectionHeader(W, "json", "FULL BREW PACKAGE METADATA (JSON)", ok)
              run == Exec(r)
              cmd == Ran(CmdInfo, run)
              fs1 == [fs EXCEPT !.json = [exists |-> TRUE, data |-> run.out]]
              h1 == [hist EXCEPT !.created = hist.created \cup {"json"}]
              s2 == Write1(s1, Item("json", "saved", AbsJSON), ok)
          IN  IF s1.err THEN Abort(s1, IOErr("write"), NoCmd)
              ELSE IF ~createOk THEN Abort(s1, IOErr("create"), NoCmd)
              ELSE IF run.status # "ok"
                   THEN Step(s1, "deferred", wrapCommandErr(CmdInfo), stats, result,
                             cmd, fs1, h1)
              ELSE IF s2.err
                   THEN Step(s2, "deferred", IOErr("write"), stats, result, cmd, fs1, h1)
              ELSE Step(s2, "banner", Nil, stats, result, cmd, fs1, h1)

\* The closing banner's lines.
BannerItems ==
    <<Item("banner", "blank", <<>>), Item("banner", "rule", <<>>),
      Item("banner", "title", <<"Report complete!">>),
      Item("banner", "report", AbsReport),
      IF ~opts.compact
      THEN Item("banner", "metadata", AbsJSON)
      ELSE Item("banner", "metadata", <<"skipped (compact mode)">>),
      Item("banner", "rule", <<>>)>>

\* A mutant of Banner: the explicit writer.Flush() is left to the deferred one.
BannerNoFlush ==
    /\ pc = "banner"
    /\ \E ok \in BOOLEAN :
          LET s1 == WriteAll(W, BannerItems, ok)
          IN  IF s1.err THEN Abort(s1, IOErr("write"), NoCmd)
              ELSE Goto(s1, "finalize", stats, result, NoCmd)

\* Lines 314-341: the closing banner and the explicit writer.Flush().
Banner ==
    /\ pc = "banner"
    /\ \E ok \in BOOLEAN :
          LET s1 == WriteAll(W, BannerItems, ok)
              s2 == Flush(s1, ok)
          IN  IF s1.err THEN Abort(s1, IOErr("write"), NoCmd)
              ELSE IF s2.err THEN Abort(s2, IOErr("write"), NoCmd)
              ELSE Goto(s2, "finalize", stats, result, NoCmd)

\* Lines 343-352: the sizes read back from disk, the stats and the times.
Finalize ==
    /\ pc = "finalize"
    /\ Step(W, "deferred", Nil, stats,
            [result EXCEPT
                !.ReportSizeBytes = fileSize(fs.report),
                !.BrewJSONSizeBytes =
                    IF ~opts.compact THEN fileSize(fs.json) ELSE result.BrewJSONSizeBytes,
                !.Stats = stats,
                !.CompletedAt = 2,
                !.DurationSeconds = 2 - result.StartedAt,
                !.Compact = opts.compact],
            NoCmd, fs,
            [hist EXCEPT !.statBuf = Len(writer.buf), !.statHandle = reportFile])

\* A mutant of RunDeferred: the defers were registered in the other order.
RunDeferredCloseFirst ==
    /\ pc = "deferred"
    /\ \E ok \in BOOLEAN :
          Step(Flush(Close(W), ok), "returned", err, stats, result, NoCmd, fs, hist)

\* A mutant of RunDeferred: a failed run removes its report.
RunDeferredRemoves ==
    /\ pc = "deferred"
    /\ \E ok \in BOOLEAN :
          Step(Close(Flush(W, ok)), "returned", err, stats, result, NoCmd,
               IF err # Nil THEN [fs EXCEPT !.report.exists = FALSE] ELSE fs, hist)

\* The defers of lines 189 and 192, run at return in reverse order:
\* writer.Flush(), then reportFile.Close().
RunDeferred ==
    /\ pc = "deferred"
    /\ \E ok \in BOOLEAN :
          Step(Close(Flush(W, ok)), "returned", err, stats, result, NoCmd, fs, hist)

\* A mutant of Present: the result is rendered whatever runExport returned.
PresentAlways ==
    /\ pc = "returned"
    /\ pc' = "exit"
    /\ emitted' = <<result>>
    /\ UNCHANGED <<opts, path, ctxDone, writer, reportFile, fs, stats, result, err,
                   lastCmd, hist>>

\* exportCmd's RunE after runExport (lines 129-148): an error is returned as it
\* is, otherwise the result is rendered.
Present ==
    /\ pc = "returned"
    /\ pc' = "exit"
    /\ emitted' = IF err # Nil THEN <<>> ELSE <<result>>
    /\ UNCHANGED <<opts, path, ctxDone, writer, reportFile, fs, stats, result, err,
                   lastCmd, hist>>

\* The caller cancels cmd.Context() between two steps of runExport.
Cancel ==
    /\ pc \notin {"returned", "exit"}
    /\ ~ctxDone
    /\ ctxDone' = TRUE
    /\ UNCHANGED <<pc, opts, path, writer, reportFile, fs, stats, result, err,
                   emitted, lastCmd, hist>>

\* The disk before the run: nothing there yet, or both directories holding
\* the two files of an earlier run.
InitFS ==
    {f \in [dirs : {{}, {"reportDir", "jsonDir"}},
            report : {[exists |-> FALSE, data |-> <<>>],
                      [exists |-> TRUE, data |-> <<Item("old", "line", <<"a">>)>>]},
            json : {[exists |-> FALSE, data |-> <<>>],
                    [exists |-> TRUE, data |-> <<"j">>]}] :
        /\ f.report.exists => "reportDir" \in f.dirs
        /\ f.json.exists => "jsonDir" \in f.dirs
        /\ f.report.exists = f.json.exists
        /\ f.json.exists = (f.dirs # {})}

Init ==
    /\ pc = "ensureMdfind"
    /\ opts \in [compact : BOOLEAN]
    /\ path \in [mdfind : BOOLEAN, brew : BOOLEAN]
    /\ ctxDone = FALSE
    /\ writer = [buf |-> <<>>, err |-> FALSE]
    /\ reportFile = "nil"
    /\ fs \in InitFS
    /\ stats = ZeroStats
    /\ result = ZeroResult
    /\ err = Nil
    /\ emitted = <<>>
    /\ lastCmd = NoCmd
    /\ hist = [sent |-> <<>>, wac |-> FALSE, lastOp |-> "none", closes |-> 0,
               closedAfter |-> "none", created |-> {}, statBuf |-> 0,
               statHandle |-> "none", userRead |-> "none"]

Next ==
    \/ EnsureMdfind
    \/ EnsureBrew
    \/ ResolvePaths
    \/ MakeDirs
    \/ CreateReport
    \/ AppBundles
    \/ SystemApps
    \/ UserApps
    \/ Casks
    \/ CaskroomPaths
    \/ Formulae
    \/ BrewConfig
    \/ BrewDoctor
    \/ BrewJSON
    \/ Banner
    \/ Finalize
    \/ RunDeferred
    \/ Present
    \/ Cancel

Spec == Init /\ [][Next]_vars

-----------------------------------------------------------------------------
(* Properties *)

Returned == pc \in {"returned", "exit"}
Succeeded == Returned /\ err = Nil
Failed == Returned /\ err # Nil

\* The lines of section sec in a report.
LinesOf(data, sec) == SelectSeq(data, LAMBDA it : it.sec = sec /\ it.kind = "line")

\* The warnings that name the command cmdName.
WarningsOf(cmdName) == {i \in 1..Len(result.Warnings) : Contains(result.Warnings[i], cmdName)}

\* The report section a command's output belongs to.
SectionOf(cmdName) ==
    CASE cmdName = CmdMdfind -> "apps"
      [] cmdName = CmdCasks -> "casks"
      [] cmdName = CmdPrefix -> "paths"
      [] cmdName = CmdFormulae -> "formulae"
      [] cmdName = CmdConfig -> "config"
      [] cmdName = CmdDoctor -> "doctor"
      [] OTHER -> "json"

\* C1: when mdfind or brew cannot be found, runExport returns the
\* missing-dependency error (mdfind's first) and the run has created no
\* directory and no file, nor opened the report.
C1_PreflightBeforeOutput ==
    (~path.mdfind \/ ~path.brew) =>
        /\ hist.created = {}
        /\ reportFile = "nil"
        /\ pc \in {"ensureMdfind", "ensureBrew", "returned", "exit"}
        /\ Returned =>
              err = IF ~path.mdfind THEN MissingErr("mdfind") ELSE MissingErr("brew")

C1_Witness ==
    /\ pc = "exit"
    /\ path.mdfind /\ ~path.brew
    /\ err = MissingErr("brew")
    /\ hist.created = {} /\ ~fs.report.exists

\* C2: in every run that succeeds, each of the five counts of the result equals
\* the number of lines of its category in the report on disk; a failed read of
\* ~/Applications gives count 0 and no line.
C2_StatsMatchLines ==
    Succeeded =>
        /\ result.Stats.AppBundleCount = Len(LinesOf(fs.report.data, "apps"))
        /\ result.Stats.ApplicationsDirCount = Len(LinesOf(fs.report.data, "system"))
        /\ result.Stats.UserApplicationsCount = Len(LinesOf(fs.report.data, "user"))
        /\ result.Stats.BrewCaskCount = Len(LinesOf(fs.report.data, "casks"))
        /\ result.Stats.BrewFormulaCount = Len(LinesOf(fs.report.data, "formulae"))
        /\ hist.userRead = "fail" => result.Stats.UserApplicationsCount = 0

C2_Witness ==
    /\ pc = "exit" /\ err = Nil
    /\ hist.userRead = "fail"
    /\ result.Stats.AppBundleCount = 2
    /\ result.Stats.ApplicationsDirCount = 2
    /\ result.Stats.BrewCaskCount = 1
    /\ Len(LinesOf(fs.report.data, "apps")) = 2

\* C3 (as claimed): when brew config exits non-zero, the failure becomes a
\* warning of the result and the run goes on to brew doctor without error.
C3_ConfigFailureIsWarning ==
    (lastCmd.name = CmdConfig /\ lastCmd.status = "fail") =>
        /\ err = Nil
        /\ pc = "doctor"
        /\ WarningsOf(CmdConfig) # {}

\* C4: when brew doctor exits non-zero, the result holds exactly one warning,
\* it names "brew doctor", and the run goes on to the metadata dump (so that,
\* until brew info has run, the only errors are those of writing the next
\* header or creating the metadata file); a run that then succeeds has dumped
\* the metadata and written the closing banner.
C4_DoctorFailureIsOneWarning ==
    /\ (lastCmd.name = CmdDoctor /\ lastCmd.status = "fail") =>
          /\ Len(result.Warnings) = 1
          /\ WarningsOf(CmdDoctor) = {1}
          /\ pc \in {"brewJSON", "deferred", "returned", "exit"}
          /\ pc = "brewJSON" => err = Nil
          /\ err \in {Nil, IOErr("write"), IOErr("create")}
    /\ (Succeeded /\ WarningsOf(CmdDoctor \o <<SP, "failed:", SP, "fail">>) # {}) =>
          /\ Len(result.Warnings) = 1
          /\ "json" \in hist.created
          /\ \E i \in 1..Len(fs.report.data) :
                fs.report.data[i] = Item("banner", "title", <<"Report complete!">>)

C4_Witness ==
    /\ pc = "exit" /\ err = Nil
    /\ WarningsOf(CmdDoctor \o <<SP, "failed:", SP, "fail">>) = {1}
    /\ fs.json.data = <<"j", "j">>
    /\ emitted = <<result>>

\* C5 (as claimed): whenever runExport returns an error, the result it returns
\* has no report path, no metadata path, and unset stats, sizes and times.
C5_NoPartialResultReturned ==
    Failed =>
        /\ result.ReportPath = <<>>
        /\ result.BrewJSONPath = <<>>
        /\ result.Stats = ZeroStats
        /\ result.ReportSizeBytes = 0 /\ result.BrewJSONSizeBytes = 0
        /\ result.StartedAt = 0 /\ result.CompletedAt = 0

\* C5 (amended): whenever runExport returns an error, exportCmd renders no
\* result, and the returned value's stats, sizes, completion time and duration
\* are unset; it carries the report path and the start time exactly when the
\* report file was opened, and the metadata path only when not compact.
C5_NoResultEmittedOnError ==
    Failed =>
        /\ emitted = <<>>
        /\ result.Stats = ZeroStats
        /\ result.ReportSizeBytes = 0 /\ result.BrewJSONSizeBytes = 0
        /\ result.CompletedAt = 0 /\ result.DurationSeconds = 0
        /\ (result.ReportPath = AbsReport) = ("report" \in hist.created)
        /\ (result.ReportPath = <<>>) = ("report" \notin hist.created)
        /\ (result.StartedAt # 0) = ("report" \in hist.created)
        /\ result.BrewJSONPath =
              IF "report" \in hist.created /\ ~opts.compact THEN AbsJSON ELSE <<>>

C5_Witness ==
    /\ pc = "exit"
    /\ err = wrapCommandErr(CmdMdfind)
    /\ result.ReportPath = AbsReport /\ result.StartedAt # 0
    /\ emitted = <<>>

\* C6 (as claimed): when the report's size is measured, the writer has been
\* flushed and the file has been closed.
C6_FlushedAndClosedBeforeStat ==
    hist.statHandle # "none" => (hist.statBuf = 0 /\ hist.statHandle = "closed")

\* C6 (amended): when the report's size is measured the writer has been flushed
\* (nothing is buffered) and the file is still open; it is closed on return, and
\* in every successful run ReportSizeBytes is the size of the report on disk,
\* which holds everything the writer accepted.
C6_FlushedBeforeStat ==
    /\ hist.statHandle # "none" => (hist.statBuf = 0 /\ hist.statHandle = "open")
    /\ Succeeded =>
          /\ hist.statHandle = "open"
          /\ reportFile = "closed"
          /\ result.ReportSizeBytes = Len(fs.report.data)
          /\ fs.report.data = hist.sent

C6_Witness ==
    /\ pc = "exit" /\ err = Nil
    /\ reportFile = "closed"
    /\ result.ReportSizeBytes = Len(fs.report.data)
    /\ result.ReportSizeBytes > BufCap

\* C7: in compact mode the result never carries a metadata path or size,
\* whether or not a file exists at the metadata path, and the banner of a
\* successful run says the metadata was skipped and does not give its path.
C7_CompactHasNoMetadata ==
    opts.compact =>
        /\ result.BrewJSONPath = <<>>
        /\ result.BrewJSONSizeBytes = 0
        /\ Succeeded =>
              /\ \E i \in 1..Len(fs.report.data) :
                    fs.report.data[i] =
                        Item("banner", "metadata", <<"skipped (compact mode)">>)
              /\ \A i \in 1..Len(fs.report.data) :
                    fs.report.data[i] # Item("banner", "metadata", AbsJSON)
              /\ emitted # <<>> => emitted[1].BrewJSONPath = <<>>

C7_Witness ==
    /\ pc = "exit" /\ err = Nil
    /\ opts.compact
    /\ fs.json.exists /\ fileSize(fs.json) > 0
    /\ emitted = <<result>>
    /\ result.Compact

\* C8 (as claimed): after a command was cancelled in flight, the report holds
\* no output of its category, the result holds no warning of it, and no result
\* is rendered.
C8_CancelledCommandLeavesNothing ==
    lastCmd.status = "cancel" =>
        /\ \A i \in 1..Len(hist.sent) :
              ~(/\ hist.sent[i].sec = SectionOf(lastCmd.name)
                /\ hist.sent[i].kind \in {"line", "out"})
        /\ WarningsOf(lastCmd.name) = {}
        /\ emitted = <<>>

\* C9: the report's handle is closed only on return, once, right after a Flush
\* of the writer, and nothing is written to it afterwards; every return after
\* the report was opened leaves it closed, with all the writer accepted on disk
\* unless a write failed.
C9_FlushThenCloseOnce ==
    /\ hist.closes <= 1
    /\ ~hist.wac
    /\ reportFile = "closed" => (Returned /\ hist.closedAfter = "flush")
    /\ (Returned /\ "report" \in hist.created) =>
          /\ reportFile = "closed"
          /\ hist.closes = 1
          /\ ~writer.err => (writer.buf = <<>> /\ fs.report.data = hist.sent)
    /\ (~Returned /\ "report" \in hist.created) => reportFile = "open"

C9_Witness ==
    /\ pc = "exit" /\ err # Nil
    /\ reportFile = "closed" /\ hist.closes = 1 /\ hist.closedAfter = "flush"
    /\ ~writer.err
    /\ Len(fs.report.data) \in 1..BufCap
    /\ fs.report.data = hist.sent

\* C10: a file the run created is never removed: after a fatal failure the
\* report is on disk with what was written up to the failure (unless a write
\* itself failed), and a failed brew info leaves the metadata file it created.
C10_CreatedFilesStay ==
    /\ "report" \in hist.created => fs.report.exists
    /\ "json" \in hist.created => fs.json.exists
    /\ (Failed /\ "report" \in hist.created /\ ~writer.err) =>
          /\ fs.report.data = hist.sent
          /\ hist.sent # <<>>
    /\ err = wrapCommandErr(CmdInfo) =>
          /\ "json" \in hist.created
          /\ fs.json.exists
          /\ \E i \in 1..Len(hist.sent) :
                hist.sent[i] = Item("json", "title", <<"FULL BREW PACKAGE METADATA (JSON)">>)

C10_Witness ==
    /\ pc = "exit"
    /\ err = wrapCommandErr(CmdInfo)
    /\ lastCmd.status = "fail"
    /\ fs.json.exists /\ fs.json.data = <<>>
    /\ fs.report.exists /\ fs.report.data = hist.sent /\ hist.sent # <<>>

====
